---- MODULE Spec2Model ----
(***************************************************************************)
(* The expression parser of compilador.py: the Lexer (TOKEN_RE scanned by  *)
(* finditer) and the recursive-descent parser parse_expression with its    *)
(* nested functions E, T and F, run as a machine with an explicit call     *)
(* stack.  A text is a sequence of one-character strings; a token is the   *)
(* pair <<kind, value>> with value a sequence of characters; a tree node   *)
(* is <<"NUMBER", v>>, <<"ID", v>> or <<"BINOP", op, left, right>>.        *)
(***************************************************************************)
EXTENDS Integers, Sequences, FiniteSets, TLC

VARIABLES text, tokens, pos, stack, status, tree, err

vars == <<text, tokens, pos, stack, status, tree, err>>

(***************************************************************************)
(* Bounds of the inputs.                                                   *)
(***************************************************************************)
\* longest text drawn character by character from Alphabet
MaxLen == 3
\* longest lexeme sequence drawn from Lexemes (joined, in each context)
MaxTokens == 3

(***************************************************************************)
(* Character classes of TOKEN_RE.                                          *)
(***************************************************************************)
Digits == {"0", "1", "2", "3", "4", "5", "6", "7", "8", "9"}

IdStart ==
    {"a", "b", "c", "d", "e", "f", "g", "h", "i", "j", "k", "l", "m",
     "n", "o", "p", "q", "r", "s", "t", "u", "v", "w", "x", "y", "z",
     "A", "B", "C", "D", "E", "F", "G", "H", "I", "J", "K", "L", "M",
     "N", "O", "P", "Q", "R", "S", "T", "U", "V", "W", "X", "Y", "Z", "_"}

IdPart == IdStart \cup Digits

Whitespace == {" ", "\t", "\n", "\r", "\f"}

\* the characters line 108 keeps as tokens: other in "+-*/()"
OpChars == {"+", "-", "*", "/", "(", ")"}

\* first index >= p of text whose character is not in class, Len+1 if none
RECURSIVE RunEnd(_, _, _)
RunEnd(s, p, class) ==
    IF p <= Len(s) /\ s[p] \in class THEN RunEnd(s, p + 1, class) ELSE p

\* last index in lo..hi of s that "." matches (any character but newline),
\* 0 if none
RECURSIVE LastDot(_, _, _)
LastDot(s, lo, hi) ==
    IF hi < lo THEN 0
    ELSE IF s[hi] # "\n" THEN hi ELSE LastDot(s, lo, hi - 1)

(***************************************************************************)
(* One match of TOKEN_RE searched from index p (1-based): the groups       *)
(* (num, ident, other), <<>> standing for None, the index of the first     *)
(* character of the group and the index after the match; found is FALSE    *)
(* when no match starts at p.  \s* is greedy and gives characters back     *)
(* only when nothing follows the white space.                              *)
(***************************************************************************)
NoMatch == [found |-> FALSE, num |-> <<>>, ident |-> <<>>, other |-> <<>>,
            start |-> 0, end |-> 0]

MatchAt(s, p) ==
    LET q == RunEnd(s, p, Whitespace)
    IN  IF q > Len(s)
        THEN LET d == LastDot(s, p, Len(s))
             IN  IF d = 0 THEN NoMatch
                 ELSE [found |-> TRUE, num |-> <<>>, ident |-> <<>>,
                       other |-> <<s[d]>>, start |-> d, end |-> d + 1]
        ELSE IF s[q] \in Digits
        THEN LET r == RunEnd(s, q, Digits)
                 e == IF r + 1 <= Len(s) /\ s[r] = "." /\ s[r + 1] \in Digits
                      THEN RunEnd(s, r + 1, Digits) ELSE r
             IN  [found |-> TRUE, num |-> SubSeq(s, q, e - 1), ident |-> <<>>,
                  other |-> <<>>, start |-> q, end |-> e]
        ELSE IF s[q] \in IdStart
        THEN LET e == RunEnd(s, q, IdPart)
             IN  [found |-> TRUE, num |-> <<>>, ident |-> SubSeq(s, q, e - 1),
                  other |-> <<>>, start |-> q, end |-> e]
        ELSE [found |-> TRUE, num |-> <<>>, ident |-> <<>>,
              other |-> <<s[q]>>, start |-> q, end |-> q + 1]

\* TOKEN_RE.finditer(text): the successive matches, left to right
RECURSIVE FindIter(_, _)
FindIter(s, p) ==
    IF p > Len(s) THEN <<>>
    ELSE LET m == MatchAt(s, p)
         IN  IF m.found THEN <<m>> \o FindIter(s, m.end)
             ELSE FindIter(s, p + 1)

\* line 108 as "elif not other.isspace()": unrecognized characters pass through
TokenOf_keeps_other(m) ==
    IF m.num # <<>> THEN << <<"NUMBER", m.num>> >>
    ELSE IF m.ident # <<>> THEN << <<"ID", m.ident>> >>
    ELSE IF m.other[1] \notin Whitespace THEN << <<m.other[1], m.other>> >>
    ELSE <<>>

\* line 108 as "elif other": every single character matched becomes a token
TokenOf_keeps_all(m) ==
    IF m.num # <<>> THEN << <<"NUMBER", m.num>> >>
    ELSE IF m.ident # <<>> THEN << <<"ID", m.ident>> >>
    ELSE << <<m.other[1], m.other>> >>

\* the body of the loop of Lexer.__init__: the tokens one match appends
TokenOf(m) ==
    IF m.num # <<>> THEN << <<"NUMBER", m.num>> >>
    ELSE IF m.ident # <<>> THEN << <<"ID", m.ident>> >>
    ELSE IF m.other[1] \in OpChars THEN << <<m.other[1], m.other>> >>
    ELSE <<>>

RECURSIVE TokensOf(_)
TokensOf(ms) ==
    IF ms = <<>> THEN <<>> ELSE TokenOf(Head(ms)) \o TokensOf(Tail(ms))

\* Lexer(text).tokens
LexerTokens(s) == TokensOf(FindIter(s, 1))

(***************************************************************************)
(* Lexer.peek and the frames of the call stack.                            *)
(***************************************************************************)
EOF == <<"EOF", <<>>>>

peek == IF pos < Len(tokens) THEN tokens[pos + 1] ELSE EOF

Frame(fn, pc) == [fn |-> fn, pc |-> pc, node |-> <<>>, op |-> ""]

Top == stack[Len(stack)]

At(fn, pc) ==
    /\ status = "running"
    /\ stack # <<>>
    /\ Top.fn = fn
    /\ Top.pc = pc

SetTop(f) == [stack EXCEPT ![Len(stack)] = f]

\* lines 121 and 127 with the operands of the new node exchanged
Resume_swapped(c, value) ==
    IF c.pc = "right"
    THEN [c EXCEPT !.node = <<"BINOP", c.op, value, c.node>>, !.pc = "loop"]
    ELSE IF c.fn = "F" THEN [c EXCEPT !.node = value, !.pc = "close"]
    ELSE IF c.fn = "parse_expression"
    THEN [c EXCEPT !.node = value, !.pc = "check"]
    ELSE [c EXCEPT !.node = value, !.pc = "loop"]

\* the caller's frame once the call it waits on has returned value
Resume(c, value) ==
    IF c.pc = "right"
    THEN [c EXCEPT !.node = <<"BINOP", c.op, c.node, value>>, !.pc = "loop"]
    ELSE IF c.fn = "F" THEN [c EXCEPT !.node = value, !.pc = "close"]
    ELSE IF c.fn = "parse_expression"
    THEN [c EXCEPT !.node = value, !.pc = "check"]
    ELSE [c EXCEPT !.node = value, !.pc = "loop"]

\* return value from the top frame to its caller
Return(value) ==
    LET rest == SubSeq(stack, 1, Len(stack) - 1)
    IN  stack' = [rest EXCEPT ![Len(rest)] = Resume(rest[Len(rest)], value)]

\* raise SyntaxError(msg): the exception unwinds every frame
Raise(msg) ==
    /\ status' = "raised"
    /\ err' = msg
    /\ stack' = <<>>
    /\ UNCHANGED <<text, tokens, pos, tree>>

(***************************************************************************)
(* The inputs: every text of at most MaxLen characters of Alphabet, and    *)
(* every sequence of at most MaxTokens lexemes of Lexemes, written with    *)
(* one space between lexemes, alone and inside each context of Contexts.   *)
(***************************************************************************)
Alphabet == {"a", "1", ".", "+", "-", "*", "/", "(", ")", " ", "$"}

Lexemes == {"a", "1", "+", "-", "*", "/", "(", ")"}

Contexts ==
    { <<<<>>, <<>>>>,
      <<<<"(">>, <<")">>>>,
      <<<<"(">>, <<>>>>,
      <<<<"b", "+">>, <<>>>>,
      <<<<"b", "*", "(">>, <<")">>>>,
      <<<<"(">>, <<")", "*", "c">>>>,
      <<<<"c", "-">>, <<>>>> }

SeqsUpTo(S, n) == UNION {[1..k -> S] : k \in 0..n}

RECURSIVE Join(_)
Join(ls) ==
    IF ls = <<>> THEN <<>>
    ELSE IF Len(ls) = 1 THEN <<ls[1]>>
    ELSE <<ls[1], " ">> \o Join(Tail(ls))

Inputs ==
    SeqsUpTo(Alphabet, MaxLen)
    \cup {Join(c[1] \o ls \o c[2]) : c \in Contexts, ls \in SeqsUpTo(Lexemes, MaxTokens)}

Init ==
    /\ text \in Inputs
    /\ tokens = <<>>
    /\ pos = 0
    /\ stack = <<Frame("parse_expression", "lexer")>>
    /\ status = "running"
    /\ tree = <<>>
    /\ err = <<>>

(***************************************************************************)
(* parse_expression, lines 116 and 140-142.                                *)
(***************************************************************************)
\* line 116: lex = Lexer(text)
Lexer__init__ ==
    /\ At("parse_expression", "lexer")
    /\ tokens' = LexerTokens(text)
    /\ pos' = 0
    /\ stack' = SetTop([Top EXCEPT !.pc = "call_E"])
    /\ UNCHANGED <<text, status, tree, err>>

\* line 140: tree = E(), the call
main_call_E ==
    /\ At("parse_expression", "call_E")
    /\ stack' = Append(SetTop([Top EXCEPT !.pc = "tree"]), Frame("E", "begin"))
    /\ UNCHANGED <<text, tokens, pos, status, tree, err>>

\* line 141: tokens are left over
main_extra ==
    /\ At("parse_expression", "check")
    /\ peek[1] # "EOF"
    /\ Raise(<<"Entrada extra.">>)

\* line 142 without the test of line 141
main_return_unchecked ==
    /\ At("parse_expression", "check")
    /\ status' = "returned"
    /\ tree' = Top.node
    /\ stack' = <<>>
    /\ UNCHANGED <<text, tokens, pos, err>>

\* line 142: return tree
main_return ==
    /\ At("parse_expression", "check")
    /\ peek[1] = "EOF"
    /\ status' = "returned"
    /\ tree' = Top.node
    /\ stack' = <<>>
    /\ UNCHANGED <<text, tokens, pos, err>>

(***************************************************************************)
(* E, lines 118-122.                                                       *)
(***************************************************************************)
\* line 120: the operators the loop of E folds
E_ops == {"+", "-"}

\* line 126 testing the operators of both levels
T_ops_both_levels == {"*", "/", "+", "-"}

\* line 126: the operators the loop of T folds
T_ops == {"*", "/"}

\* line 119: node = T(), the call
E_first ==
    /\ At("E", "begin")
    /\ stack' = Append(SetTop([Top EXCEPT !.pc = "first"]), Frame("T", "begin"))
    /\ UNCHANGED <<text, tokens, pos, status, tree, err>>

\* lines 120-121: the loop test holds; op = lex.next()[0], then the call T()
E_op ==
    /\ At("E", "loop")
    /\ peek[1] \in E_ops
    /\ pos' = pos + 1
    /\ stack' = Append(SetTop([Top EXCEPT !.op = peek[1], !.pc = "right"]),
                       Frame("T", "begin"))
    /\ UNCHANGED <<text, tokens, status, tree, err>>

\* line 122: return node
E_return ==
    /\ At("E", "loop")
    /\ peek[1] \notin E_ops
    /\ Return(Top.node)
    /\ UNCHANGED <<text, tokens, pos, status, tree, err>>

(***************************************************************************)
(* T, lines 124-128.                                                       *)
(***************************************************************************)
\* line 125: node = F(), the call
T_first ==
    /\ At("T", "begin")
    /\ stack' = Append(SetTop([Top EXCEPT !.pc = "first"]), Frame("F", "begin"))
    /\ UNCHANGED <<text, tokens, pos, status, tree, err>>

\* lines 126-127: the loop test holds; op = lex.next()[0], then the call F()
T_op ==
    /\ At("T", "loop")
    /\ peek[1] \in T_ops
    /\ pos' = pos + 1
    /\ stack' = Append(SetTop([Top EXCEPT !.op = peek[1], !.pc = "right"]),
                       Frame("F", "begin"))
    /\ UNCHANGED <<text, tokens, status, tree, err>>

\* line 128: return node
T_return ==
    /\ At("T", "loop")
    /\ peek[1] \notin T_ops
    /\ Return(Top.node)
    /\ UNCHANGED <<text, tokens, pos, status, tree, err>>

(***************************************************************************)
(* F, lines 130-138.                                                       *)
(***************************************************************************)
\* line 133 calling T() for the inside of the group
F_lparen_calls_T ==
    /\ At("F", "begin")
    /\ peek[1] = "("
    /\ pos' = pos + 1
    /\ stack' = Append(SetTop([Top EXCEPT !.pc = "paren"]), Frame("T", "begin"))
    /\ UNCHANGED <<text, tokens, status, tree, err>>

\* line 133 without the lex.next() before it
F_lparen_peeking ==
    /\ At("F", "begin")
    /\ peek[1] = "("
    /\ stack' = Append(SetTop([Top EXCEPT !.pc = "paren"]), Frame("E", "begin"))
    /\ UNCHANGED <<text, tokens, pos, status, tree, err>>

\* lines 132-133: lex.next(); node = E(), the call
F_lparen ==
    /\ At("F", "begin")
    /\ peek[1] = "("
    /\ pos' = pos + 1
    /\ stack' = Append(SetTop([Top EXCEPT !.pc = "paren"]), Frame("E", "begin"))
    /\ UNCHANGED <<text, tokens, status, tree, err>>

\* line 134 taking the end of the group for granted
F_missing_lenient ==
    /\ At("F", "close")
    /\ peek[1] # ")"
    /\ Return(Top.node)
    /\ UNCHANGED <<text, tokens, pos, status, tree, err>>

\* line 134: the group is not closed
F_missing ==
    /\ At("F", "close")
    /\ peek[1] # ")"
    /\ Raise(<<"Faltando ')'">>)

\* line 135 without the test of line 134
F_rparen_unguarded ==
    /\ At("F", "close")
    /\ pos' = pos + 1
    /\ Return(Top.node)
    /\ UNCHANGED <<text, tokens, status, tree, err>>

\* line 135: lex.next(); return node
F_rparen ==
    /\ At("F", "close")
    /\ peek[1] = ")"
    /\ pos' = pos + 1
    /\ Return(Top.node)
    /\ UNCHANGED <<text, tokens, status, tree, err>>

\* line 136: return ("NUMBER", lex.next()[1])
F_number ==
    /\ At("F", "begin")
    /\ peek[1] = "NUMBER"
    /\ pos' = pos + 1
    /\ Return(<<"NUMBER", peek[2]>>)
    /\ UNCHANGED <<text, tokens, status, tree, err>>

\* line 137: return ("ID", lex.next()[1])
F_id ==
    /\ At("F", "begin")
    /\ peek[1] = "ID"
    /\ pos' = pos + 1
    /\ Return(<<"ID", peek[2]>>)
    /\ UNCHANGED <<text, tokens, status, tree, err>>

\* line 131 as tok = lex.next()
F_unexpected_consuming ==
    /\ At("F", "begin")
    /\ peek[1] \notin {"(", "NUMBER", "ID"}
    /\ status' = "raised"
    /\ err' = <<"Token inesperado: ", peek>>
    /\ stack' = <<>>
    /\ pos' = pos + 1
    /\ UNCHANGED <<text, tokens, tree>>

\* line 138: no alternative of F applies
F_unexpected ==
    /\ At("F", "begin")
    /\ peek[1] \notin {"(", "NUMBER", "ID"}
    /\ Raise(<<"Token inesperado: ", peek>>)

\* the steps of the parser proper, lines 118-142
ParserNext ==
    \/ main_call_E
    \/ main_extra
    \/ main_return
    \/ E_first
    \/ E_op
    \/ E_return
    \/ T_first
    \/ T_op
    \/ T_return
    \/ F_lparen
    \/ F_missing
    \/ F_rparen
    \/ F_number
    \/ F_id
    \/ F_unexpected

Next ==
    \/ Lexer__init__
    \/ ParserNext

Spec == Init /\ [][Next]_vars

\* the state once line 116 has run: the Lexer is constructed
Lexed ==
    /\ text \in Inputs
    /\ tokens = LexerTokens(text)
    /\ pos = 0
    /\ stack = <<Frame("parse_expression", "call_E")>>
    /\ status = "running"
    /\ tree = <<>>
    /\ err = <<>>

\* The parse of a constructed token list.  Python runs the one thread of the
\* call without interruption, so a step that can be taken is taken.
LiveSpec == Lexed /\ [][ParserNext]_vars /\ WF_vars(ParserNext)

Done == status \in {"returned", "raised"}

(***************************************************************************)
(* The same functions E, T and F as functions of the token list and the    *)
(* cursor: the result of one call started at cursor p, that is whether it  *)
(* returned, the node returned, the cursor it leaves and the error raised. *)
(***************************************************************************)
PeekAt(toks, p) == IF p < Len(toks) THEN toks[p + 1] ELSE EOF

Returned(node, p) == [ok |-> TRUE, node |-> node, pos |-> p, err |-> <<>>]

Raised(msg, p) == [ok |-> FALSE, node |-> <<>>, pos |-> p, err |-> msg]

RECURSIVE CallE(_, _), LoopE(_, _, _), CallT(_, _), LoopT(_, _, _), CallF(_, _)

\* lines 130-138
CallF(toks, p) ==
    LET tok == PeekAt(toks, p)
    IN  IF tok[1] = "("
        THEN LET r == CallE(toks, p + 1)
             IN  IF ~r.ok THEN r
                 ELSE IF PeekAt(toks, r.pos)[1] # ")"
                 THEN Raised(<<"Faltando ')'">>, r.pos)
                 ELSE Returned(r.node, r.pos + 1)
        ELSE IF tok[1] = "NUMBER" THEN Returned(<<"NUMBER", tok[2]>>, p + 1)
        ELSE IF tok[1] = "ID" THEN Returned(<<"ID", tok[2]>>, p + 1)
        ELSE Raised(<<"Token inesperado: ", tok>>, p)

\* lines 126-128
LoopT(toks, node, p) ==
    IF PeekAt(toks, p)[1] \in T_ops
    THEN LET r == CallF(toks, p + 1)
         IN  IF ~r.ok THEN r
             ELSE LoopT(toks, <<"BINOP", PeekAt(toks, p)[1], node, r.node>>, r.pos)
    ELSE Returned(node, p)

\* lines 124-125
CallT(toks, p) ==
    LET r == CallF(toks, p)
    IN  IF ~r.ok THEN r ELSE LoopT(toks, r.node, r.pos)

\* lines 120-122
LoopE(toks, node, p) ==
    IF PeekAt(toks, p)[1] \in E_ops
    THEN LET r == CallT(toks, p + 1)
         IN  IF ~r.ok THEN r
             ELSE LoopE(toks, <<"BINOP", PeekAt(toks, p)[1], node, r.node>>, r.pos)
    ELSE Returned(node, p)

\* lines 118-119
CallE(toks, p) ==
    LET r == CallT(toks, p)
    IN  IF ~r.ok THEN r ELSE LoopE(toks, r.node, r.pos)

\* lines 140-142 on the token list toks
ParseTokens(toks) ==
    LET r == CallE(toks, 0)
    IN  IF ~r.ok THEN r
        ELSE IF PeekAt(toks, r.pos)[1] # "EOF"
        THEN Raised(<<"Entrada extra.">>, r.pos)
        ELSE r

\* lines 114-142: what parse_expression(s) does, return or raise
parse_expression(s) == ParseTokens(LexerTokens(s))

\* what the run has done once it is over, in the same form
Outcome ==
    [ok |-> status = "returned", node |-> tree, pos |-> pos, err |-> err]

\* the two readings of the code agree on every input
RunAgrees == Done => Outcome = parse_expression(text)

(***************************************************************************)
(* Notions the properties are stated with.                                 *)
(***************************************************************************)
Kinds(toks) == [i \in 1..Len(toks) |-> toks[i][1]]

NoParens(toks) == \A i \in 1..Len(toks) : toks[i][1] \notin {"(", ")"}

IsBinop(n) == n[1] = "BINOP"

IsAdditive(n) == n[1] = "BINOP" /\ n[2] \in {"+", "-"}

IsMultiplicative(n) == n[1] = "BINOP" /\ n[2] \in {"*", "/"}

Leaf(tok) == <<tok[1], tok[2]>>

Bin(op, l, r) == <<"BINOP", op, l, r>>

\* no '*' or '/' node of n has a '+' or '-' node as a child
RECURSIVE TighterBelow(_)
TighterBelow(n) ==
    IF ~IsBinop(n) THEN TRUE
    ELSE /\ IsMultiplicative(n) => ~IsAdditive(n[3]) /\ ~IsAdditive(n[4])
         /\ TighterBelow(n[3])
         /\ TighterBelow(n[4])

\* every level of n folds to the left
RECURSIVE FoldsLeft(_)
FoldsLeft(n) ==
    IF ~IsBinop(n) THEN TRUE
    ELSE /\ IsAdditive(n) => ~IsAdditive(n[4])
         /\ IsMultiplicative(n) => ~IsBinop(n[4])
         /\ FoldsLeft(n[3])
         /\ FoldsLeft(n[4])

RECURSIVE LeafCount(_)
LeafCount(n) == IF IsBinop(n) THEN LeafCount(n[3]) + LeafCount(n[4]) ELSE 1

RECURSIVE BinopCount(_)
BinopCount(n) ==
    IF IsBinop(n) THEN 1 + BinopCount(n[3]) + BinopCount(n[4]) ELSE 0

CountKinds(toks, ks) == Cardinality({i \in 1..Len(toks) : toks[i][1] \in ks})

\* the index of the '(' that the ')' at index j closes, 0 if there is none
RECURSIVE OpenOf(_, _, _)
OpenOf(toks, j, depth) ==
    IF j < 1 THEN 0
    ELSE IF toks[j][1] = ")" THEN OpenOf(toks, j - 1, depth + 1)
    ELSE IF toks[j][1] = "(" /\ depth = 1 THEN j
    ELSE IF toks[j][1] = "(" THEN OpenOf(toks, j - 1, depth - 1)
    ELSE OpenOf(toks, j - 1, depth)

(***************************************************************************)
(* C1 -- Precedence: in the tree returned for a token sequence without     *)
(* parentheses no '*' or '/' node has a '+' or '-' node as a child; in     *)
(* particular x + y * z returns (x + (y * z)).                             *)
(***************************************************************************)
C1_Precedence ==
    status = "returned" /\ NoParens(tokens) =>
        /\ TighterBelow(tree)
        /\ Kinds(tokens) = <<"ID", "+", "ID", "*", "ID">> =>
               tree = Bin("+", Leaf(tokens[1]),
                           Bin("*", Leaf(tokens[3]), Leaf(tokens[5])))

C1_Witness ==
    /\ status = "returned"
    /\ Kinds(tokens) = <<"ID", "+", "ID", "*", "ID">>
    /\ IsAdditive(tree)
    /\ IsMultiplicative(tree[4])

(***************************************************************************)
(* C2 -- Left associativity: in the tree returned for a token sequence     *)
(* without parentheses the right child of a '+' or '-' node is never a     *)
(* '+' or '-' node and the right child of a '*' or '/' node is a leaf; in  *)
(* particular x - y - z returns ((x - y) - z).                             *)
(***************************************************************************)
C2_LeftAssociative ==
    status = "returned" /\ NoParens(tokens) =>
        /\ FoldsLeft(tree)
        /\ Kinds(tokens) = <<"ID", "-", "ID", "-", "ID">> =>
               tree = Bin("-", Bin("-", Leaf(tokens[1]), Leaf(tokens[3])),
                           Leaf(tokens[5]))

C2_Witness ==
    /\ status = "returned"
    /\ Kinds(tokens) = <<"ID", "-", "ID", "-", "ID">>
    /\ IsAdditive(tree)
    /\ IsAdditive(tree[3])

(***************************************************************************)
(* C3 -- Parenthesis override: when F is about to consume the ')' of a     *)
(* group, the node it holds is the tree of the tokens inside the group     *)
(* parsed alone; parsing '(' e ')' for an accepted e returns the tree of   *)
(* e; a returned tree has one leaf per NUMBER or ID token and one BINOP    *)
(* per operator token, so parentheses leave no node; and (x + y) * z       *)
(* returns ((x + y) * z).                                                  *)
(***************************************************************************)
C3_ParenOverride ==
    /\ At("F", "close") /\ peek[1] = ")" =>
           LET i == OpenOf(tokens, pos, 1)
               e == ParseTokens(SubSeq(tokens, i + 1, pos))
           IN  i > 0 /\ e.ok /\ e.node = Top.node
    /\ /\ Done
       /\ Len(tokens) >= 2
       /\ tokens[1][1] = "("
       /\ tokens[Len(tokens)][1] = ")"
       /\ ParseTokens(SubSeq(tokens, 2, Len(tokens) - 1)).ok
       => /\ status = "returned"
          /\ tree = ParseTokens(SubSeq(tokens, 2, Len(tokens) - 1)).node
    /\ status = "returned" =>
           /\ LeafCount(tree) = CountKinds(tokens, {"NUMBER", "ID"})
           /\ BinopCount(tree) = CountKinds(tokens, {"+", "-", "*", "/"})
    /\ Done /\ Kinds(tokens) = <<"(", "ID", "+", "ID", ")", "*", "ID">> =>
           /\ status = "returned"
           /\ tree = Bin("*", Bin("+", Leaf(tokens[2]), Leaf(tokens[4])),
                         Leaf(tokens[7]))

C3_Witness ==
    /\ status = "returned"
    /\ Kinds(tokens) = <<"(", "ID", "+", "ID", ")", "*", "ID">>
    /\ IsMultiplicative(tree)
    /\ IsAdditive(tree[3])

(***************************************************************************)
(* C4 -- Malformed input.  As claimed: every text holding a character that *)
(* is neither white space nor a letter, digit, underscore, operator or     *)
(* parenthesis makes parse_expression raise.                               *)
(***************************************************************************)
\* the alphabet of the grammar: letters, digits, underscore, + - * / ( )
Recognized == IdPart \cup {"+", "-", "*", "/", "(", ")"}

HasUnrecognized(s) ==
    \E i \in 1..Len(s) : s[i] \notin Recognized \cup Whitespace

C4_MalformedRaises == Done /\ HasUnrecognized(text) => status = "raised"

\* s with every character other than the recognized ones and '.' made a space
Blank(s) ==
    [i \in 1..Len(s) |->
        IF s[i] \in Recognized \cup Whitespace \cup {"."} THEN s[i] ELSE " "]

(***************************************************************************)
(* C4, amended -- the Lexer drops every unrecognized character: no token   *)
(* is made of one, the token list is that of the text with each such       *)
(* character (other than '.', which is kept inside a NUMBER and dropped    *)
(* elsewhere) replaced by a space, and parse_expression returns or raises  *)
(* exactly as it does on that text.                                        *)
(***************************************************************************)
C4_UnrecognizedDropped ==
    /\ \A i \in 1..Len(tokens) :
           /\ tokens[i][1] \in {"NUMBER", "ID", "+", "-", "*", "/", "(", ")"}
           /\ \A j \in 1..Len(tokens[i][2]) :
                  tokens[i][2][j] \in Recognized \cup {"."}
           /\ tokens[i][1] # "NUMBER" =>
                  \A j \in 1..Len(tokens[i][2]) : tokens[i][2][j] # "."
    /\ ~At("parse_expression", "lexer") => tokens = LexerTokens(Blank(text))
    /\ Done => Outcome = parse_expression(Blank(text))

C4_Witness ==
    /\ status = "returned"
    /\ \E i \in 1..Len(text) : text[i] = "$"

(***************************************************************************)
(* C5 -- Unclosed parenthesis: when F has parsed the inside of a group and *)
(* the lookahead is not ')', the parse raises "Faltando ')'" and returns   *)
(* no tree; every '(' e with e accepted and nothing after it ends so.      *)
(***************************************************************************)
C5_UnclosedParen ==
    /\ [](/\ Done
          /\ tokens # <<>>
          /\ tokens[1][1] = "("
          /\ ParseTokens(Tail(tokens)).ok
          => /\ status = "raised"
             /\ err = <<"Faltando ')'">>
             /\ tree = <<>>)
    /\ [][At("F", "close") /\ peek[1] # ")" =>
              /\ status' = "raised"
              /\ err' = <<"Faltando ')'">>
              /\ tree' = <<>>
              /\ pos' = pos]_vars

C5_Witness ==
    /\ status = "raised"
    /\ err = <<"Faltando ')'">>
    /\ Kinds(tokens) = <<"(", "ID", "+", "ID">>

(***************************************************************************)
(* C6 -- Trailing input: a tree is returned only with the cursor at the    *)
(* end of the token list; when the top-level E returns with tokens left    *)
(* the parse raises "Entrada extra." and returns no tree.                  *)
(***************************************************************************)
C6_TrailingInput ==
    /\ status = "returned" => pos = Len(tokens) /\ tree # <<>>
    /\ At("parse_expression", "check") =>
           CallE(tokens, 0) = Returned(Top.node, pos)
    /\ Done /\ CallE(tokens, 0).ok /\ CallE(tokens, 0).pos < Len(tokens) =>
           /\ status = "raised"
           /\ err = <<"Entrada extra.">>
           /\ tree = <<>>
           /\ pos = CallE(tokens, 0).pos
    /\ Done /\ Kinds(tokens) \in {<<"ID", "ID">>, <<"ID", ")">>} =>
           status = "raised" /\ err = <<"Entrada extra.">>

C6_Witness ==
    /\ status = "raised"
    /\ err = <<"Entrada extra.">>
    /\ Kinds(tokens) = <<"ID", ")">>

(***************************************************************************)
(* C7 -- Unexpected token: when F starts and the lookahead is none of '(', *)
(* NUMBER, ID (end of input included) the parse raises "Token inesperado"  *)
(* with that lookahead token and does not consume it; so the empty token   *)
(* list and x + end so with the EOF token.                                 *)
(***************************************************************************)
C7_UnexpectedToken ==
    /\ [](status = "raised" /\ err[1] = "Token inesperado: " =>
              /\ err[2] = peek
              /\ peek[1] \notin {"(", "NUMBER", "ID"}
              /\ tree = <<>>)
    /\ [](Done /\ (tokens = <<>> \/ Kinds(tokens) = <<"ID", "+">>) =>
              status = "raised" /\ err = <<"Token inesperado: ", EOF>>)
    /\ [][At("F", "begin") /\ peek[1] \notin {"(", "NUMBER", "ID"} =>
              /\ status' = "raised"
              /\ err' = <<"Token inesperado: ", peek>>
              /\ pos' = pos]_vars

C7_Witness ==
    /\ status = "raised"
    /\ err = <<"Token inesperado: ", EOF>>
    /\ Kinds(tokens) = <<"ID", "+">>

(***************************************************************************)
(* C8 -- White space.  InsertAt puts one space after the first i           *)
(* characters, RemoveAt takes the character at index i away; any amount of *)
(* white space is inserted or removed by repeating them.                   *)
(***************************************************************************)
InsertAt(s, i) == SubSeq(s, 1, i) \o <<" ">> \o SubSeq(s, i + 1, Len(s))

RemoveAt(s, i) == SubSeq(s, 1, i - 1) \o SubSeq(s, i + 1, Len(s))

\* characters i and i+1 of s lie in the lexeme of one token
InsideToken(s, i) ==
    LET ms == FindIter(s, 1)
    IN  \E k \in 1..Len(ms) :
            /\ TokenOf(ms[k]) # <<>>
            /\ ms[k].start <= i
            /\ i + 1 < ms[k].end

\* the token list and the outcome are those of the text s
SameAs(s) == tokens = LexerTokens(s) /\ Outcome = parse_expression(s)

\* As claimed: a space inserted between two tokens, before the first or
\* after the last, or a white-space character removed there, changes
\* neither the token list nor the outcome.
C8_WhitespaceInsensitive ==
    Done =>
        /\ \A i \in 0..Len(text) : ~InsideToken(text, i) => SameAs(InsertAt(text, i))
        /\ \A i \in 1..Len(text) :
               text[i] \in Whitespace => SameAs(RemoveAt(text, i))

\* the characters a NUMBER or an ID lexeme can hold
Fusible == IdPart \cup {"."}

\* removing character i of s brings two characters of Fusible together
Fuses(s, i) ==
    /\ 1 < i
    /\ i < Len(s)
    /\ s[i - 1] \in Fusible
    /\ s[i + 1] \in Fusible

(***************************************************************************)
(* C8, amended -- a space inserted between two tokens, before the first or *)
(* after the last changes neither the token list nor the outcome, and nor  *)
(* does removing a white-space character unless it alone separates two     *)
(* characters that one NUMBER or ID lexeme can hold (letter, digit,        *)
(* underscore, '.'); x+y and "  x   +   y  " give the same tree.           *)
(***************************************************************************)
C8_WhitespaceAtBoundaries ==
    Done =>
        /\ \A i \in 0..Len(text) : ~InsideToken(text, i) => SameAs(InsertAt(text, i))
        /\ \A i \in 1..Len(text) :
               text[i] \in Whitespace /\ ~Fuses(text, i) => SameAs(RemoveAt(text, i))
        /\ Kinds(tokens) = <<"ID", "+", "ID">> =>
               tree = Bin("+", Leaf(tokens[1]), Leaf(tokens[3]))

C8_Witness ==
    /\ status = "returned"
    /\ Kinds(tokens) = <<"ID", "+", "ID">>
    /\ \E i \in 1..Len(text) : text[i] = " "

(***************************************************************************)
(* C9 -- Cursor: pos starts at 0, stays within 0..Len(tokens), every step  *)
(* leaves it or adds exactly one, it is advanced only when the lookahead   *)
(* is a token of the list, never EOF, and the token list does not change   *)
(* once the Lexer is constructed.                                          *)
(***************************************************************************)
C9_Cursor ==
    /\ pos = 0
    /\ [](pos \in 0..Len(tokens))
    /\ [][/\ pos' \in {pos, pos + 1}
          /\ pos' = pos + 1 => peek[1] # "EOF" /\ pos < Len(tokens)
          /\ ~At("parse_expression", "lexer") => tokens' = tokens]_vars

C9_Witness ==
    /\ At("F", "close")
    /\ pos = Len(tokens)
    /\ pos > 0

(***************************************************************************)
(* C10 -- Termination: every parse ends, returned or raised; a loop of E   *)
(* or T goes round, and F enters E, only with the cursor advanced by one,  *)
(* so the stack holds at most three frames per token consumed besides the  *)
(* first four; and after a raise the cursor stays.                         *)
(***************************************************************************)
Depth == Len(stack)

Iterates ==
    /\ stack # <<>>
    /\ Top.fn \in {"E", "T"}
    /\ Top.pc = "loop"
    /\ Depth' = Depth + 1

EntersE ==
    /\ stack # <<>>
    /\ Top.fn = "F"
    /\ Depth' = Depth + 1

C10_Terminates ==
    /\ <>Done
    /\ [](Depth <= 3 * pos + 4)
    /\ [][/\ Iterates \/ EntersE => pos' = pos + 1
          /\ status = "raised" => pos' = pos /\ status' = "raised"]_vars

C10_Witness ==
    /\ Depth = 7
    /\ pos = 1
    /\ Top.fn = "F"
====
